---- MODULE Spec2Model ----
(***************************************************************************)
(* Model of the video-to-scenes pipeline of koishi510/Optics:              *)
(*   detect_green_in_frame, detect_green_dots_from_video and               *)
(*   process_video_to_scenes (process_video_to_scenes.py),                 *)
(*   detect_green_dot (detect_green_dot.py) and                            *)
(*   batch_generate_json_files (batch_generate_json.py).                   *)
(*                                                                         *)
(* Python numbers are modelled by what the interpreter computes: an int is *)
(* exact, a float is an IEEE-754 binary64 value kept as sign, integer part *)
(* and the bits of the fraction, and every float operation rounds its      *)
(* exact result to 53 significant bits, ties to even.                      *)
(***************************************************************************)
EXTENDS Integers, Sequences, FiniteSets, TLC

\* ------------------------------------------------------------------------
\* Python numbers
\* ------------------------------------------------------------------------

\* significand width of a Python float (binary64)
MantissaBits == 53

RECURSIVE BitLen(_)
BitLen(n) == IF n = 0 THEN 0 ELSE 1 + BitLen(n \div 2)

\* positions of the one bits of F
Ones(F) == {k \in 1..Len(F) : F[k] = 1}

SetMax(S) == CHOOSE m \in S : \A k \in S : k <= m
SetMin(S) == CHOOSE m \in S : \A k \in S : m <= k

LeadingZeros(F) == IF Ones(F) = {} THEN Len(F) ELSE SetMin(Ones(F)) - 1

StripZeros(F) == IF Ones(F) = {} THEN <<>> ELSE SubSeq(F, 1, SetMax(Ones(F)))

AnyOne(F, k) == \E j \in k..Len(F) : F[j] = 1

\* F + one unit in the last place of F: the new bits and the carry out of F
IncBits(F) ==
    LET zeros == {k \in 1..Len(F) : F[k] = 0}
    IN IF zeros = {}
       THEN [bits |-> [k \in 1..Len(F) |-> 0], carry |-> 1]
       ELSE LET p == SetMax(zeros)
            IN [bits |-> [k \in 1..Len(F) |->
                            IF k < p THEN F[k] ELSE IF k = p THEN 1 ELSE 0],
                carry |-> 0]

\* a Python number: isfloat tells int from float; the magnitude is
\* int + 0.frac (frac most significant bit first, no trailing zero)
MkNum(isfloat, neg, I, F) ==
    LET S == StripZeros(F)
    IN [isfloat |-> isfloat, neg |-> neg /\ (I # 0 \/ S # <<>>),
        int |-> I, frac |-> S]

PyInt(n) == MkNum(FALSE, n < 0, IF n < 0 THEN -n ELSE n, <<>>)

\* the magnitude I + 0.F (+ something below F when sticky) rounded to the
\* nearest binary64, ties to even
Round53(neg, I, F, sticky) ==
    LET keep == IF I > 0 THEN MantissaBits - BitLen(I)
                ELSE MantissaBits + LeadingZeros(F)
    IN IF Len(F) <= keep
       THEN MkNum(TRUE, neg, I, F)
       ELSE LET kept == SubSeq(F, 1, keep)
                roundbit == F[keep + 1]
                stk == sticky \/ AnyOne(F, keep + 2)
                last == IF keep > 0 THEN kept[keep] ELSE I % 2
                up == roundbit = 1 /\ (stk \/ last = 1)
                inc == IncBits(kept)
            IN IF up THEN MkNum(TRUE, neg, I + inc.carry, inc.bits)
               ELSE MkNum(TRUE, neg, I, kept)

\* bits handled by one step of a long division or multiplication
ChunkBits == 12

RECURSIVE TwoTo(_)
TwoTo(k) == IF k = 0 THEN 1 ELSE 2 * TwoTo(k - 1)
Pow2Table == [k \in 0..30 |-> TwoTo(k)]
Pow2(k) == Pow2Table[k]

\* the w binary digits of t < 2^w, most significant first
BitsOf(t, w) == [k \in 1..w |-> (t \div Pow2(w - k)) % 2]

\* the first n bits of r/q (0 <= r < q) after the binary point, a chunk per
\* step of the long division, and the remainder left
RECURSIVE LongDivision(_, _, _)
LongDivision(r, q, n) ==
    IF n = 0 THEN [bits |-> <<>>, rem |-> r]
    ELSE LET w == IF n > ChunkBits THEN ChunkBits ELSE n
             t == r * Pow2(w)
             rest == LongDivision(t % q, q, n - w)
         IN [bits |-> BitsOf(t \div q, w) \o rest.bits, rem |-> rest.rem]

\* the bits of r/q after the binary point, `need` of them counted from the
\* first significant one (from the binary point when started), and the
\* remainder left
DivBits(r, q, need, started) ==
    IF r = 0 THEN [bits |-> <<>>, rem |-> 0]
    ELSE LET first == SetMin({k \in 1..(BitLen(q) + 1) : r * Pow2(k) >= q})
         IN LongDivision(r, q, IF started THEN need ELSE first - 1 + need)

\* p / q for Python ints p >= 0, q > 0 (true division, correctly rounded);
\* also the float a decimal literal p/q of a JSON document parses to
FloatDiv(p, q) ==
    LET I == p \div q
        d == DivBits(p % q, q, MantissaBits + 1 - BitLen(I), I > 0)
    IN Round53(FALSE, I, d.bits, d.rem # 0)

\* the number whose binary digits are F[lo..hi]
RECURSIVE ChunkVal(_, _, _)
ChunkVal(F, lo, hi) == IF hi < lo THEN 0 ELSE 2 * ChunkVal(F, lo, hi - 1) + F[hi]

\* i * F for the bits F[1..hi], least significant chunk first: product bits
\* and the carry out of F
RECURSIVE MulBits(_, _, _, _)
MulBits(i, F, hi, carry) ==
    IF hi = 0 THEN [bits |-> <<>>, carry |-> carry]
    ELSE LET lo == IF hi > ChunkBits THEN hi - ChunkBits + 1 ELSE 1
             w == hi - lo + 1
             t == i * ChunkVal(F, lo, hi) + carry
             rest == MulBits(i, F, lo - 1, t \div Pow2(w))
         IN [bits |-> rest.bits \o BitsOf(t % Pow2(w), w), carry |-> rest.carry]

\* i * d for a Python int i >= 0 and a float d >= 0
FloatMulInt(i, d) ==
    LET m == MulBits(i, d.frac, Len(d.frac), 0)
    IN Round53(FALSE, i * d.int + m.carry, m.bits, FALSE)

\* 1 - 0.F for a non-zero F without trailing zero
OneMinus(F) ==
    [k \in 1..Len(F) |-> IF k = Len(F) THEN 1 ELSE 1 - F[k]]

\* d + n for a float d and a Python int n
FloatAddInt(d, n) ==
    LET s == IF d.neg THEN n - d.int ELSE n + d.int
        \* the exact sum is s + 0.frac when d >= 0, s - 0.frac when d < 0
    IN IF d.frac = <<>>
       THEN Round53(s < 0, IF s < 0 THEN -s ELSE s, <<>>, FALSE)
       ELSE IF ~d.neg
            THEN IF s >= 0 THEN Round53(FALSE, s, d.frac, FALSE)
                 ELSE Round53(TRUE, -s - 1, OneMinus(d.frac), FALSE)
            ELSE IF s > 0 THEN Round53(FALSE, s - 1, OneMinus(d.frac), FALSE)
                 ELSE Round53(TRUE, -s, d.frac, FALSE)

\* int(d): truncation toward zero
FloatToInt(d) == IF d.neg THEN -d.int ELSE d.int

IntOf(a) == IF a.neg THEN -a.int ELSE a.int

\* a - n and n + a for a number a and a Python int n: int arithmetic is
\* exact, float arithmetic rounds
NumSubInt(a, n) == IF a.isfloat THEN FloatAddInt(a, -n) ELSE PyInt(IntOf(a) - n)
NumAddInt(n, a) == IF a.isfloat THEN FloatAddInt(a, n) ELSE PyInt(n + IntOf(a))

\* Python's == on numbers compares values: 625 == 625.0
NumEq(a, b) == a.neg = b.neg /\ a.int = b.int /\ a.frac = b.frac

\* ------------------------------------------------------------------------
\* Frames and MarkerLocator
\* ------------------------------------------------------------------------

\* a contour of the mask, as cv2.contourArea and cv2.moments see it
Contour(area, m10, m01) == [area |-> area, m00 |-> area, m10 |-> m10, m01 |-> m01]

\* Variant: the first contour is taken, whatever its area.
LargestContour_First(contours) == contours[1]

\* max(contours, key=cv2.contourArea): the first contour of maximal area
LargestContour(contours) ==
    contours[SetMin({k \in 1..Len(contours) :
                        \A j \in 1..Len(contours) : contours[j].area <= contours[k].area})]

NoPos == <<>>

\* detect_green_in_frame: a frame is the sequence of contours found in its
\* mask; the result is <<cx, cy>> or NoPos (None)
detect_green_in_frame(frame) ==
    IF frame # <<>>
    THEN LET M == LargestContour(frame)
         IN IF M.m00 # 0
            THEN <<FloatToInt(FloatDiv(M.m10, M.m00)), FloatToInt(FloatDiv(M.m01, M.m00))>>
            ELSE NoPos
    ELSE NoPos

\* ------------------------------------------------------------------------
\* Inputs
\* ------------------------------------------------------------------------

\* frames of the videos scanned frame by frame, and samples asked of them
MaxFrames == 3
MaxSamples == 2
\* frames of the long videos the sampler is applied to, and samples asked
MaxLongFrames == 30
MaxLongSamples == 22

FrameEmpty == <<>>
FrameDegenerate == <<Contour(0, 0, 0)>>
FrameDotA == <<Contour(9, 3586, 5004)>>
FrameDotB == <<Contour(2, 21, 20), Contour(10, 4205, 5600)>>
FrameKinds == {FrameEmpty, FrameDotA, FrameDotB}

LongFrame(f) == <<Contour(4, 4 * (398 + f) + 1, 4 * (556 + ((7 * f) % 50)))>>

ShortVideos == UNION {[1..n -> FrameKinds] : n \in 0..MaxFrames}
\* a long video: the marker in every frame, or in every frame but each
\* gap-th one, where the mask holds a contour of no area
LongGaps == {0, 4}
LongVideo(n, gap) ==
    [f \in 1..n |-> IF gap > 0 /\ f % gap = 0 THEN FrameDegenerate ELSE LongFrame(f)]
LongVideos == {LongVideo(n, gap) : n \in 1..MaxLongFrames, gap \in LongGaps}

\* scene objects as the template documents hold them
PointSourceObj(x, y) ==
    [type |-> "PointSource", x |-> x, y |-> y, wavelength |-> "550", brightness |-> "0.5"]
MirrorObj == [type |-> "Mirror", p1 |-> <<300, 100>>, p2 |-> <<300, 500>>]
\* an object of the simulator that has x and y and is no light source
TextLabelObj == [type |-> "TextLabel", x |-> PyInt(50), y |-> PyInt(60), text |-> "S"]

SceneDoc(objs) == [version |-> 5, objs |-> objs, width |-> 1200, height |-> 600]

TemplateFirst == SceneDoc(<<PointSourceObj(PyInt(400), PyInt(625)), MirrorObj>>)
TemplateSecond ==
    SceneDoc(<<MirrorObj, PointSourceObj(PyInt(400), PyInt(625)),
               PointSourceObj(PyInt(100), PyInt(200))>>)
TemplateFloat == SceneDoc(<<PointSourceObj(FloatDiv(801, 2), FloatDiv(1001, 10))>>)
TemplateLabelFirst == SceneDoc(<<TextLabelObj, PointSourceObj(PyInt(400), PyInt(625))>>)
TemplateLabelOnly == SceneDoc(<<TextLabelObj, MirrorObj>>)
TemplateNoSource == SceneDoc(<<MirrorObj>>)
TemplateNoObjs == [version |-> 5, width |-> 1200, height |-> 600]
Templates ==
    {TemplateFirst, TemplateSecond, TemplateFloat, TemplateLabelFirst,
     TemplateLabelOnly, TemplateNoSource, TemplateNoObjs}

\* ------------------------------------------------------------------------
\* Files
\* ------------------------------------------------------------------------

RECURSIVE Digits(_)
Digits(n) == IF n < 10 THEN <<n>> ELSE Append(Digits(n \div 10), n % 10)

\* Variant: the ordinal is cut to its last two digits.
Format02d_TwoDigits(i) == <<(i \div 10) % 10, i % 10>>

\* f"{i:02d}": decimal digits, zero-padded to at least two
Format02d(i) == IF i < 10 THEN <<0, i>> ELSE Digits(i)

\* f"{output_prefix}_{i:02d}"
FileName(prefix, i) == [prefix |-> prefix, digits |-> Format02d(i)]

JsonPath(name) == [dir |-> "output/json", ext |-> "json", name |-> name]
HtmlPath(name) == [dir |-> "output/html", ext |-> "html", name |-> name]
ImagePath(name) == [dir |-> "output/images", ext |-> "png", name |-> name]

OutputPrefix == "test"
TemplatePath == JsonPath(FileName("test", 0))
SummaryPath == JsonPath([prefix |-> "green_dot_coordinates", digits |-> <<>>])

WriteFile(files, path, content) ==
    [q \in (DOMAIN files) \cup {path} |-> IF q = path THEN content ELSE files[q]]

\* ------------------------------------------------------------------------
\* Documents in memory: dicts and lists are heap cells, held by reference
\* ------------------------------------------------------------------------

EmptyHeap == [roots |-> <<>>, lists |-> <<>>, dicts |-> <<>>]

\* json.load / json.loads: every dict and list of the document becomes a
\* fresh cell; the root dict holds the address of its objs list, the list
\* the addresses of the object dicts
JsonLoads(h, doc) ==
    IF "objs" \in DOMAIN doc
    THEN LET la == Len(h.lists) + 1
             base == Len(h.dicts)
         IN [heap |-> [roots |-> Append(h.roots,
                                    [f \in DOMAIN doc |-> IF f = "objs" THEN la ELSE doc[f]]),
                       lists |-> Append(h.lists, [k \in 1..Len(doc.objs) |-> base + k]),
                       dicts |-> h.dicts \o doc.objs],
             root |-> Len(h.roots) + 1]
    ELSE [heap |-> [h EXCEPT !.roots = Append(h.roots, doc)], root |-> Len(h.roots) + 1]

\* json.dumps: the document reachable from a root dict
JsonDumps(h, root) ==
    LET d == h.roots[root]
    IN [f \in DOMAIN d |->
          IF f = "objs" THEN [k \in 1..Len(h.lists[d.objs]) |-> h.dicts[h.lists[d.objs][k]]]
          ELSE d[f]]

\* template.get('objs', []): the addresses of the object dicts
ObjsOf(h, root) ==
    IF "objs" \in DOMAIN h.roots[root] THEN h.lists[h.roots[root].objs] ELSE <<>>

\* for obj in doc.get('objs', []): if obj.get('type') == 'PointSource': break
\* the address of the first PointSource dict, 0 when there is none
FindPointSource(h, root) ==
    LET objs == ObjsOf(h, root)
        hits == {k \in 1..Len(objs) :
                    /\ "type" \in DOMAIN h.dicts[objs[k]]
                    /\ h.dicts[objs[k]].type = "PointSource"}
    IN IF hits = {} THEN 0 ELSE objs[SetMin(hits)]

\* obj['x'] = x; obj['y'] = y on the dict at address a
SetXY(h, a, x, y) ==
    [h EXCEPT !.dicts[a] =
        [f \in (DOMAIN h.dicts[a]) \cup {"x", "y"} |->
            IF f = "x" THEN x ELSE IF f = "y" THEN y ELSE h.dicts[a][f]]]

\* Variant: the patch loop without its break, so every PointSource is moved.
PatchPointSource_NoBreak(h, root, x, y) ==
    LET objs == ObjsOf(h, root)
    IN [h EXCEPT !.dicts =
          [a \in 1..Len(h.dicts) |->
              IF /\ \E k \in 1..Len(objs) : objs[k] = a
                 /\ "type" \in DOMAIN h.dicts[a]
                 /\ h.dicts[a].type = "PointSource"
              THEN [f \in (DOMAIN h.dicts[a]) \cup {"x", "y"} |->
                      IF f = "x" THEN x ELSE IF f = "y" THEN y ELSE h.dicts[a][f]]
              ELSE h.dicts[a]]]

\* Variant: the patch adds the number of documents loaded so far to x, a
\* counter hidden in the emitter.
PatchPointSource_HiddenCounter(h, root, x, y) ==
    LET a == FindPointSource(h, root)
    IN IF a = 0 THEN h ELSE SetXY(h, a, NumAddInt(Len(h.roots), x), y)

\* the loop of process_video_to_scenes that patches the first PointSource
PatchPointSource(h, root, x, y) ==
    LET a == FindPointSource(h, root)
    IN IF a = 0 THEN h ELSE SetXY(h, a, x, y)

\* Variant: new_json = dict(template), a shallow copy that shares the objs
\* list and the object dicts with the template.
CloneTemplate_Shallow(h, root) ==
    [heap |-> [h EXCEPT !.roots = Append(h.roots, h.roots[root])],
     root |-> Len(h.roots) + 1]

\* new_json = json.loads(json.dumps(template))
CloneTemplate(h, root) == JsonLoads(h, JsonDumps(h, root))

\* ------------------------------------------------------------------------
\* UniformSampler
\* ------------------------------------------------------------------------

CoordOf(v) == [frame |-> v[1], x |-> v[2][1], y |-> v[2][2]]

\* Variant: every index after the first is rounded up instead of cut.
UniformSample_RoundUp(valid, K) ==
    IF Len(valid) <= K
    THEN [j \in 1..Len(valid) |-> CoordOf(valid[j])]
    ELSE LET step == FloatDiv(Len(valid), K)
         IN [j \in 1..K |->
                CoordOf(valid[FloatToInt(FloatMulInt(j - 1, step))
                              + (IF j = 1 THEN 1 ELSE 2)])]

\* Variant: sampling starts at the second position, range(1, ...).
UniformSample_SkipFirst(valid, K) ==
    IF Len(valid) <= K
    THEN [j \in 1..(Len(valid) - 1) |-> CoordOf(valid[j + 1])]
    ELSE LET step == FloatDiv(Len(valid), K)
         IN [j \in 1..(K - 1) |-> CoordOf(valid[FloatToInt(FloatMulInt(j, step)) + 1])]

\* Variant: the first K detections are taken.
UniformSample_FirstK(valid, K) ==
    [j \in 1..(IF K < Len(valid) THEN K ELSE Len(valid)) |-> CoordOf(valid[j])]

\* Variant: the loop runs over range(num_samples - 1).
UniformSample_ShortRange(valid, K) ==
    IF Len(valid) <= K
    THEN [j \in 1..Len(valid) |-> CoordOf(valid[j])]
    ELSE LET step == FloatDiv(Len(valid), K)
         IN [j \in 1..(K - 1) |-> CoordOf(valid[FloatToInt(FloatMulInt(j - 1, step)) + 1])]

\* Variant: no len(valid_frames) <= num_samples branch, the stride always runs.
UniformSample_AlwaysStride(valid, K) ==
    LET step == FloatDiv(Len(valid), K)
    IN [j \in 1..K |-> CoordOf(valid[FloatToInt(FloatMulInt(j - 1, step)) + 1])]

\* Variant: step = num_samples / len(valid_frames), the quotient inverted.
UniformSample_InvertedStep(valid, K) ==
    IF Len(valid) <= K
    THEN [j \in 1..Len(valid) |-> CoordOf(valid[j])]
    ELSE LET step == FloatDiv(K, Len(valid))
         IN [j \in 1..K |-> CoordOf(valid[FloatToInt(FloatMulInt(j - 1, step)) + 1])]

\* detect_green_dots_from_video, the sampling of valid_frames
UniformSample(valid, K) ==
    IF Len(valid) <= K
    THEN [j \in 1..Len(valid) |-> CoordOf(valid[j])]
    ELSE LET step == FloatDiv(Len(valid), K)
         IN [j \in 1..K |-> CoordOf(valid[FloatToInt(FloatMulInt(j - 1, step)) + 1])]

\* Variant: every detection is kept, whatever K is.
UniformSampleDot_KeepAll(valid, K) ==
    [j \in 1..Len(valid) |-> CoordOf(valid[j])]

\* detect_green_dot, the sampling of valid_frames
UniformSampleDot(valid, K) ==
    IF Len(valid) <= K
    THEN [j \in 1..Len(valid) |-> CoordOf(valid[j])]
    ELSE LET step == FloatDiv(Len(valid), K)
         IN [j \in 1..K |-> CoordOf(valid[FloatToInt(FloatMulInt(j - 1, step)) + 1])]

\* ------------------------------------------------------------------------
\* State
\* ------------------------------------------------------------------------

VARIABLES
    entry,            \* the entry point running
    pc,               \* its position
    err,              \* the exception that ended it, "" when none
    source,           \* the video path: "ok", "unopenable" or "missing"
    video,            \* the frames the source yields
    total_frames,     \* the frame count the container declares (CAP_PROP_FRAME_COUNT)
    num_samples,      \* K
    generate_images,
    output_json,      \* detect_green_dot: whether a summary path is given
    fs,               \* the files under output/
    heap,             \* documents in memory
    template,         \* address of the loaded template, 0 before
    light_source,     \* address of the template's reference object, 0 before
    template_y,
    cap,              \* cv2.VideoCapture: "none", "unopened", "open", "released"
    frame_count,
    valid_frames,
    coordinates,
    y_offset,
    i,                \* loop index of the emission, 1-based
    result,           \* the lists process_video_to_scenes returns
    artifacts,        \* addresses of the documents cloned so far, in order
    scene,            \* the RayOpticsScene under construction
    added,            \* history: the objects handed to add_object / add_objects, in order
    passed,           \* what validate_json returned for the last save ("True", "False"), "" before
    base_scene,       \* the dict generate_trajectory_scenes was handed
    trajectory,
    light_config,     \* the type of light source asked for
    json_files        \* the list the trajectory generators return

vars == <<entry, pc, err, source, video, total_frames, num_samples, generate_images, output_json,
          fs, heap, template, light_source, template_y, cap, frame_count,
          valid_frames, coordinates, y_offset, i, result, artifacts,
          scene, added, passed, base_scene, trajectory, light_config, json_files>>

inputs == <<source, video, total_frames, num_samples, generate_images, output_json>>
scan == <<cap, frame_count, valid_frames>>
docs == <<heap, template, light_source, template_y, artifacts>>
builder == <<scene, added, passed, base_scene, trajectory, light_config, json_files>>

EmptyFiles == [q \in {} |-> 0]
EmptyResult == [json_files |-> <<>>, html_files |-> <<>>, image_files |-> <<>>]

\* RayOpticsScene.__init__: the defaults of the constructor, no object yet
NewScene(width, height) == [width |-> width, height |-> height, objects |-> <<>>]
NoDict == [q \in {} |-> 0]

\* the video pipeline builds no scene and generates no trajectory
NoBuilder ==
    /\ scene = NewScene(1200, 600) /\ added = <<>> /\ passed = ""
    /\ base_scene = NoDict /\ trajectory = <<>> /\ light_config = ""
    /\ json_files = <<>>

Fresh ==
    /\ pc = "start" /\ err = ""
    /\ heap = EmptyHeap /\ template = 0 /\ light_source = 0
    /\ template_y = PyInt(0) /\ y_offset = PyInt(0)
    /\ cap = "none" /\ frame_count = 0 /\ valid_frames = <<>>
    /\ coordinates = <<>> /\ i = 0
    /\ result = EmptyResult /\ artifacts = <<>>
    /\ NoBuilder

\* what output/ holds before the run: the template, and possibly the image
\* an earlier run left for the first point
InitialFiles(tpl, stale) ==
    LET f0 == WriteFile(EmptyFiles, TemplatePath, tpl)
    IN IF stale
       THEN WriteFile(f0, ImagePath(FileName(OutputPrefix, 1)),
                      [shot_of |-> HtmlPath(FileName("earlier", 1))])
       ELSE f0

\* every video of up to MaxFrames frames, with every template; the runs that
\* take screenshots use the first template
InitShort ==
    /\ entry \in {"process_video_to_scenes", "detect_green_dot"}
    /\ source = "ok"
    /\ video \in ShortVideos
    /\ total_frames = Len(video)
    /\ num_samples \in 1..MaxSamples
    /\ generate_images \in IF entry = "process_video_to_scenes" THEN BOOLEAN ELSE {FALSE}
    /\ output_json \in IF entry = "detect_green_dot" THEN BOOLEAN ELSE {FALSE}
    /\ \E tpl \in Templates, stale \in BOOLEAN :
          /\ stale => generate_images
          /\ generate_images => tpl = TemplateFirst
          /\ fs = InitialFiles(tpl, stale)

\* a video or a template that is not there, or a container that declares
\* one frame more than it yields
InitMissing ==
    /\ entry \in {"process_video_to_scenes", "detect_green_dot"}
    /\ source \in {"ok", "unopenable", "missing"}
    /\ video = <<FrameDotA>>
    /\ total_frames \in {Len(video), Len(video) + 1}
    /\ num_samples = 1
    /\ generate_images = FALSE
    /\ output_json = (entry = "detect_green_dot")
    /\ fs \in {EmptyFiles, InitialFiles(TemplateFirst, FALSE)}

Init == Fresh /\ (InitShort \/ InitMissing)

\* raise: the entry point ends with the exception
Raise(e) == pc' = "error" /\ err' = e

\* what the environment does to one call of compress_scene_for_url (the node
\* subprocess) and of screenshot_with_selenium (its return value, and
\* whether the image file was written before it returned)
CompressOutcomes == {"ok", "CalledProcessError", "FileNotFoundError"}
ShotOutcomes == [success : BOOLEAN, written : BOOLEAN]

\* ------------------------------------------------------------------------
\* process_video_to_scenes
\* ------------------------------------------------------------------------

\* the existence checks, json.load(template) and the search for the
\* PointSource
PVS_Load ==
    /\ entry = "process_video_to_scenes" /\ pc = "start"
    /\ IF TemplatePath \notin DOMAIN fs \/ source = "missing"
       THEN /\ Raise("FileNotFoundError")
            /\ UNCHANGED <<heap, template, light_source, template_y>>
       ELSE LET L == JsonLoads(heap, fs[TemplatePath])
                ls == FindPointSource(L.heap, L.root)
            IN /\ heap' = L.heap
               /\ template' = L.root
               /\ IF ls = 0
                  THEN /\ Raise("ValueError: no PointSource")
                       /\ UNCHANGED <<light_source, template_y>>
                  ELSE /\ light_source' = ls
                       /\ template_y' = L.heap.dicts[ls].y
                       /\ pc' = "open"
                       /\ err' = err
    /\ UNCHANGED <<entry, inputs, builder, fs, scan, coordinates, y_offset, i, result, artifacts>>

\* detect_green_dots_from_video: cv2.VideoCapture and the isOpened check
DGV_Open ==
    /\ entry = "process_video_to_scenes" /\ pc = "open"
    /\ IF source # "ok"
       THEN /\ cap' = "unopened"
            /\ Raise("ValueError: cannot open video")
            /\ UNCHANGED <<frame_count, valid_frames>>
       ELSE /\ cap' = "open"
            /\ frame_count' = 0
            /\ valid_frames' = <<>>
            /\ pc' = "scan"
            /\ err' = err
    /\ UNCHANGED <<entry, inputs, builder, fs, docs, coordinates, y_offset, i, result>>

\* Variant: the detection is recorded before frame_count is incremented,
\* so frames are numbered from zero.
DGV_Scan_ZeroBased ==
    /\ entry = "process_video_to_scenes" /\ pc = "scan"
    /\ IF frame_count = Len(video)
       THEN /\ pc' = "sample"
            /\ UNCHANGED <<frame_count, valid_frames>>
       ELSE LET pos == detect_green_in_frame(video[frame_count + 1])
            IN /\ frame_count' = frame_count + 1
               /\ valid_frames' = IF pos # NoPos
                                  THEN Append(valid_frames, <<frame_count, pos>>)
                                  ELSE valid_frames
               /\ pc' = pc
    /\ UNCHANGED <<entry, err, inputs, builder, fs, docs, cap, coordinates, y_offset, i, result>>

\* Variant: the loop also breaks once num_samples detections are collected.
DGV_Scan_StopEarly ==
    /\ entry = "process_video_to_scenes" /\ pc = "scan"
    /\ IF frame_count = Len(video) \/ Len(valid_frames) >= num_samples
       THEN /\ pc' = "sample"
            /\ UNCHANGED <<frame_count, valid_frames>>
       ELSE LET pos == detect_green_in_frame(video[frame_count + 1])
            IN /\ frame_count' = frame_count + 1
               /\ valid_frames' = IF pos # NoPos
                                  THEN Append(valid_frames, <<frame_count + 1, pos>>)
                                  ELSE valid_frames
               /\ pc' = pc
    /\ UNCHANGED <<entry, err, inputs, builder, fs, docs, cap, coordinates, y_offset, i, result>>

\* detect_green_dots_from_video: one pass of the while loop
DGV_Scan ==
    /\ entry = "process_video_to_scenes" /\ pc = "scan"
    /\ IF frame_count = Len(video)
       THEN /\ pc' = "sample"
            /\ UNCHANGED <<frame_count, valid_frames>>
       ELSE LET pos == detect_green_in_frame(video[frame_count + 1])
            IN /\ frame_count' = frame_count + 1
               /\ valid_frames' = IF pos # NoPos
                                  THEN Append(valid_frames, <<frame_count + 1, pos>>)
                                  ELSE valid_frames
               /\ pc' = pc
    /\ UNCHANGED <<entry, err, inputs, builder, fs, docs, cap, coordinates, y_offset, i, result>>

\* Variant: with no detection the function returns the empty list instead
\* of raising.
DGV_Sample_ReturnEmpty ==
    /\ entry = "process_video_to_scenes" /\ pc = "sample"
    /\ cap' = "released"
    /\ coordinates' = UniformSample(valid_frames, num_samples)
    /\ pc' = "map"
    /\ err' = err
    /\ UNCHANGED <<entry, inputs, builder, fs, docs, frame_count, valid_frames, y_offset, i, result>>

\* detect_green_dots_from_video after the loop: release, the empty check,
\* the sampling and the return
DGV_Sample ==
    /\ entry = "process_video_to_scenes" /\ pc = "sample"
    /\ cap' = "released"
    /\ IF Len(valid_frames) = 0
       THEN /\ Raise("ValueError: no green dot")
            /\ UNCHANGED coordinates
       ELSE /\ coordinates' = UniformSample(valid_frames, num_samples)
            /\ pc' = "map"
            /\ err' = err
    /\ UNCHANGED <<entry, inputs, builder, fs, docs, frame_count, valid_frames, y_offset, i, result>>

\* Variant: the offset is taken from the last coordinate, coordinates[-1].
PVS_Map_LastAnchor ==
    /\ entry = "process_video_to_scenes" /\ pc = "map"
    /\ IF coordinates = <<>>
       THEN /\ Raise("IndexError")
            /\ UNCHANGED <<y_offset, i, result>>
       ELSE /\ y_offset' = NumSubInt(template_y, coordinates[Len(coordinates)].y)
            /\ result' = EmptyResult
            /\ i' = 1
            /\ pc' = "emit"
            /\ err' = err
    /\ UNCHANGED <<entry, inputs, builder, fs, docs, scan, coordinates>>

\* the offset from the first coordinate, and the empty result
PVS_Map ==
    /\ entry = "process_video_to_scenes" /\ pc = "map"
    /\ IF coordinates = <<>>
       THEN /\ Raise("IndexError")
            /\ UNCHANGED <<y_offset, i, result>>
       ELSE /\ y_offset' = NumSubInt(template_y, coordinates[1].y)
            /\ result' = EmptyResult
            /\ i' = 1
            /\ pc' = "emit"
            /\ err' = err
    /\ UNCHANGED <<entry, inputs, builder, fs, docs, scan, coordinates>>

\* create_html_from_json: what the HTML file holds of the scene
HtmlOf(doc) ==
    [scene |-> doc,
     width |-> IF "width" \in DOMAIN doc THEN doc.width ELSE 1200,
     height |-> IF "height" \in DOMAIN doc THEN doc.height ELSE 600,
     obj_count |-> IF "objs" \in DOMAIN doc THEN Len(doc.objs) ELSE 0]

\* Variant: a failure of create_html_from_json is swallowed and the loop goes on.
PVS_Emit_SwallowHtml(compress, shot) ==
    /\ entry = "process_video_to_scenes" /\ pc = "emit"
    /\ i <= Len(coordinates)
    /\ LET coord == coordinates[i]
           C == CloneTemplate(heap, template)
           new_x == PyInt(coord.x)
           new_y == NumAddInt(coord.y, y_offset)
           h2 == PatchPointSource(C.heap, C.root, new_x, new_y)
           name == FileName(OutputPrefix, i)
           doc == JsonDumps(h2, C.root)
           fs1 == WriteFile(fs, JsonPath(name), doc)
           r1 == [result EXCEPT !.json_files = Append(@, JsonPath(name))]
           fs2 == WriteFile(fs1, HtmlPath(name), HtmlOf(doc))
           r2 == [r1 EXCEPT !.html_files = Append(@, HtmlPath(name))]
       IN /\ heap' = h2
          /\ artifacts' = Append(artifacts, C.root)
          /\ IF compress # "ok"
             THEN /\ fs' = fs1
                  /\ result' = r1
                  /\ i' = i + 1
                  /\ pc' = pc
                  /\ err' = err
             ELSE /\ IF ~generate_images \/ ImagePath(name) \in DOMAIN fs2
                     THEN /\ fs' = fs2
                          /\ result' = r2
                     ELSE /\ fs' = IF shot.written
                                   THEN WriteFile(fs2, ImagePath(name), [shot_of |-> HtmlPath(name)])
                                   ELSE fs2
                          /\ result' = IF shot.success
                                       THEN [r2 EXCEPT !.image_files = Append(@, ImagePath(name))]
                                       ELSE r2
                  /\ i' = i + 1
                  /\ pc' = pc
                  /\ err' = err
    /\ UNCHANGED <<entry, inputs, builder, template, light_source, template_y, scan,
                   coordinates, y_offset>>

\* one pass of the for loop over the coordinates: clone, patch, write the
\* JSON, create the HTML, take the screenshot
PVS_Emit(compress, shot) ==
    /\ entry = "process_video_to_scenes" /\ pc = "emit"
    /\ i <= Len(coordinates)
    /\ LET coord == coordinates[i]
           C == CloneTemplate(heap, template)
           new_x == PyInt(coord.x)
           new_y == NumAddInt(coord.y, y_offset)
           h2 == PatchPointSource(C.heap, C.root, new_x, new_y)
           name == FileName(OutputPrefix, i)
           doc == JsonDumps(h2, C.root)
           fs1 == WriteFile(fs, JsonPath(name), doc)
           r1 == [result EXCEPT !.json_files = Append(@, JsonPath(name))]
           fs2 == WriteFile(fs1, HtmlPath(name), HtmlOf(doc))
           r2 == [r1 EXCEPT !.html_files = Append(@, HtmlPath(name))]
       IN /\ heap' = h2
          /\ artifacts' = Append(artifacts, C.root)
          /\ IF compress # "ok"
             THEN /\ fs' = fs1
                  /\ result' = r1
                  /\ Raise(compress)
                  /\ i' = i
             ELSE /\ IF ~generate_images \/ ImagePath(name) \in DOMAIN fs2
                     THEN /\ fs' = fs2
                          /\ result' = r2
                     ELSE /\ fs' = IF shot.written
                                   THEN WriteFile(fs2, ImagePath(name), [shot_of |-> HtmlPath(name)])
                                   ELSE fs2
                          /\ result' = IF shot.success
                                       THEN [r2 EXCEPT !.image_files = Append(@, ImagePath(name))]
                                       ELSE r2
                  /\ i' = i + 1
                  /\ pc' = pc
                  /\ err' = err
    /\ UNCHANGED <<entry, inputs, builder, template, light_source, template_y, scan,
                   coordinates, y_offset>>

\* the loop is over: return result
PVS_Return ==
    /\ entry = "process_video_to_scenes" /\ pc = "emit"
    /\ i > Len(coordinates)
    /\ pc' = "done"
    /\ UNCHANGED <<entry, err, inputs, builder, fs, docs, scan, coordinates, y_offset, i, result>>

\* ------------------------------------------------------------------------
\* detect_green_dot
\* ------------------------------------------------------------------------

\* cap.get(cv2.CAP_PROP_FPS) of the videos modelled
VideoFps == FloatDiv(30, 1)

\* cv2.VideoCapture and the isOpened check: an unopenable video returns []
DGD_Open ==
    /\ entry = "detect_green_dot" /\ pc = "start"
    /\ IF source # "ok"
       THEN /\ cap' = "unopened"
            /\ pc' = "done"
            /\ UNCHANGED <<frame_count, valid_frames>>
       ELSE /\ cap' = "open"
            /\ frame_count' = 0
            /\ valid_frames' = <<>>
            /\ pc' = "scan"
    /\ UNCHANGED <<entry, err, inputs, builder, fs, docs, coordinates, y_offset, i, result>>

\* one pass of the while loop
DGD_Scan ==
    /\ entry = "detect_green_dot" /\ pc = "scan"
    /\ IF frame_count = Len(video)
       THEN /\ pc' = "sample"
            /\ UNCHANGED <<frame_count, valid_frames>>
       ELSE LET pos == detect_green_in_frame(video[frame_count + 1])
            IN /\ frame_count' = frame_count + 1
               /\ valid_frames' = IF pos # NoPos
                                  THEN Append(valid_frames, <<frame_count + 1, pos>>)
                                  ELSE valid_frames
               /\ pc' = pc
    /\ UNCHANGED <<entry, err, inputs, builder, fs, docs, cap, coordinates, y_offset, i, result>>

\* Variant: the summary takes total_frames, the count the container declares.
DGD_Sample_DeclaredCount ==
    /\ entry = "detect_green_dot" /\ pc = "sample"
    /\ cap' = "released"
    /\ pc' = "done"
    /\ IF Len(valid_frames) = 0
       THEN UNCHANGED <<coordinates, fs>>
       ELSE LET sampled == UniformSampleDot(valid_frames, num_samples)
            IN /\ coordinates' = sampled
               /\ fs' = IF output_json
                        THEN WriteFile(fs, SummaryPath,
                                       [total_frames |-> total_frames,
                                        sampled_frames |-> Len(sampled),
                                        fps |-> VideoFps,
                                        coordinates |-> sampled])
                        ELSE fs
    /\ UNCHANGED <<entry, err, inputs, builder, docs, frame_count, valid_frames, y_offset, i, result>>

\* after the loop: the empty check, the sampling, release, the summary
\* file and the return
DGD_Sample ==
    /\ entry = "detect_green_dot" /\ pc = "sample"
    /\ cap' = "released"
    /\ pc' = "done"
    /\ IF Len(valid_frames) = 0
       THEN UNCHANGED <<coordinates, fs>>
       ELSE LET sampled == UniformSampleDot(valid_frames, num_samples)
            IN /\ coordinates' = sampled
               /\ fs' = IF output_json
                        THEN WriteFile(fs, SummaryPath,
                                       [total_frames |-> frame_count,
                                        sampled_frames |-> Len(sampled),
                                        fps |-> VideoFps,
                                        coordinates |-> sampled])
                        ELSE fs
    /\ UNCHANGED <<entry, err, inputs, builder, docs, frame_count, valid_frames, y_offset, i, result>>

\* ------------------------------------------------------------------------
\* batch_generate_json_files, run on what detect_green_dot left
\* ------------------------------------------------------------------------

\* the two files are read, the light source is template['objs'][0] and the
\* offset comes from coordinates[0]
Batch_Load ==
    /\ entry = "detect_green_dot" /\ pc = "done"
    /\ entry' = "batch_generate_json_files"
    /\ IF TemplatePath \notin DOMAIN fs
       THEN /\ Raise("FileNotFoundError")
            /\ UNCHANGED <<heap, template, light_source, template_y, coordinates, y_offset, i>>
       ELSE LET L == JsonLoads(heap, fs[TemplatePath])
                objs == ObjsOf(L.heap, L.root)
            IN /\ heap' = L.heap
               /\ template' = L.root
               /\ IF SummaryPath \notin DOMAIN fs
                  THEN /\ Raise("FileNotFoundError")
                       /\ UNCHANGED <<light_source, template_y, coordinates, y_offset, i>>
                  ELSE /\ coordinates' = fs[SummaryPath].coordinates
                       /\ IF "objs" \notin DOMAIN L.heap.roots[L.root]
                          THEN /\ Raise("KeyError")
                               /\ UNCHANGED <<light_source, template_y, y_offset, i>>
                          ELSE IF objs = <<>>
                          THEN /\ Raise("IndexError")
                               /\ UNCHANGED <<light_source, template_y, y_offset, i>>
                          ELSE /\ light_source' = objs[1]
                               /\ IF "y" \notin DOMAIN L.heap.dicts[objs[1]]
                                  THEN /\ Raise("KeyError")
                                       /\ UNCHANGED <<template_y, y_offset, i>>
                                  ELSE /\ template_y' = L.heap.dicts[objs[1]].y
                                       /\ IF coordinates' = <<>>
                                          THEN /\ Raise("IndexError")
                                               /\ UNCHANGED <<y_offset, i>>
                                          ELSE /\ y_offset' = NumSubInt(template_y', coordinates'[1].y)
                                               /\ i' = 1
                                               /\ pc' = "emit"
                                               /\ err' = err
    /\ UNCHANGED <<inputs, builder, fs, scan, result, artifacts>>

\* one pass of the for loop: clone, patch objs[0], write test_<i>.json
Batch_Emit ==
    /\ entry = "batch_generate_json_files" /\ pc = "emit"
    /\ i <= Len(coordinates)
    /\ LET coord == coordinates[i]
           C == CloneTemplate(heap, template)
           new_x == PyInt(coord.x)
           new_y == NumAddInt(coord.y, y_offset)
           h2 == SetXY(C.heap, ObjsOf(C.heap, C.root)[1], new_x, new_y)
       IN /\ heap' = h2
          /\ artifacts' = Append(artifacts, C.root)
          /\ fs' = WriteFile(fs, JsonPath(FileName("test", i)), JsonDumps(h2, C.root))
          /\ i' = i + 1
    /\ UNCHANGED <<entry, pc, err, inputs, builder, template, light_source, template_y, scan,
                   coordinates, y_offset, result>>

Batch_Return ==
    /\ entry = "batch_generate_json_files" /\ pc = "emit"
    /\ i > Len(coordinates)
    /\ pc' = "done"
    /\ UNCHANGED <<entry, err, inputs, builder, fs, docs, scan, coordinates, y_offset, i, result>>

\* ------------------------------------------------------------------------

Next ==
    \/ PVS_Load
    \/ DGV_Open
    \/ DGV_Scan
    \/ DGV_Sample
    \/ PVS_Map
    \/ \E compress \in CompressOutcomes, shot \in ShotOutcomes : PVS_Emit(compress, shot)
    \/ PVS_Return
    \/ DGD_Open
    \/ DGD_Scan
    \/ DGD_Sample
    \/ Batch_Load
    \/ Batch_Emit
    \/ Batch_Return

Spec == Init /\ [][Next]_vars

\* ------------------------------------------------------------------------
\* The sampler on long trajectories: the runs start where the while loop
\* has just left a long video exhausted
\* ------------------------------------------------------------------------

\* what the while loop has accumulated when the video is exhausted
Detections(frames) ==
    LET pos == [f \in 1..Len(frames) |-> detect_green_in_frame(frames[f])]
        hits == {f \in 1..Len(frames) : pos[f] # NoPos}
        nth(j) == CHOOSE f \in hits : Cardinality({g \in hits : g <= f}) = j
    IN [j \in 1..Cardinality(hits) |-> <<nth(j), pos[nth(j)]>>]

\* the videos the sampler is applied to, and their trajectories
SamplerVideos == LongVideos \cup ShortVideos
Trajectories == [v \in SamplerVideos |-> Detections(v)]

SamplerInit ==
    /\ entry \in {"process_video_to_scenes", "detect_green_dot"}
    /\ pc = "sample" /\ err = ""
    /\ source = "ok"
    /\ video \in SamplerVideos
    /\ total_frames = Len(video)
    /\ num_samples \in 1..MaxLongSamples
    /\ generate_images = FALSE
    /\ output_json = (entry = "detect_green_dot")
    /\ fs = InitialFiles(TemplateFirst, FALSE)
    /\ IF entry = "process_video_to_scenes"
       THEN LET L == JsonLoads(EmptyHeap, TemplateFirst)
            IN /\ heap = L.heap /\ template = L.root
               /\ light_source = FindPointSource(L.heap, L.root)
               /\ template_y = L.heap.dicts[light_source].y
       ELSE heap = EmptyHeap /\ template = 0 /\ light_source = 0 /\ template_y = PyInt(0)
    /\ y_offset = PyInt(0)
    /\ cap = "open"
    /\ frame_count = Len(video)
    /\ valid_frames = Trajectories[video]
    /\ coordinates = <<>> /\ i = 0
    /\ result = EmptyResult /\ artifacts = <<>>
    /\ NoBuilder

SamplerNext == DGV_Sample \/ DGD_Sample

SamplerSpec == SamplerInit /\ [][SamplerNext]_vars

\* ------------------------------------------------------------------------
\* The emitters on many points: the runs start where the while loop has
\* just left a video of MaxPoints frames exhausted, the marker in every
\* frame, and are asked for the default number of samples or for all
\* ------------------------------------------------------------------------

MaxPoints == 101
DefaultSamples == 20

EmitterVideo == [f \in 1..MaxPoints |-> LongFrame(f)]
EmitterTrajectory == Detections(EmitterVideo)

EmitterInit ==
    /\ entry \in {"process_video_to_scenes", "detect_green_dot"}
    /\ pc = "sample" /\ err = ""
    /\ source = "ok"
    /\ video = EmitterVideo
    /\ total_frames = Len(video)
    /\ num_samples \in {DefaultSamples, MaxPoints}
    /\ generate_images = FALSE
    /\ output_json = (entry = "detect_green_dot")
    /\ fs = InitialFiles(TemplateFirst, FALSE)
    /\ IF entry = "process_video_to_scenes"
       THEN LET L == JsonLoads(EmptyHeap, TemplateFirst)
            IN /\ heap = L.heap /\ template = L.root
               /\ light_source = FindPointSource(L.heap, L.root)
               /\ template_y = L.heap.dicts[light_source].y
       ELSE heap = EmptyHeap /\ template = 0 /\ light_source = 0 /\ template_y = PyInt(0)
    /\ y_offset = PyInt(0)
    /\ cap = "open"
    /\ frame_count = Len(video)
    /\ valid_frames = EmitterTrajectory
    /\ coordinates = <<>> /\ i = 0
    /\ result = EmptyResult /\ artifacts = <<>>
    /\ NoBuilder

EmitterNext ==
    \/ DGV_Sample
    \/ PVS_Map
    \/ \E compress \in CompressOutcomes, shot \in ShotOutcomes : PVS_Emit(compress, shot)
    \/ PVS_Return
    \/ DGD_Sample
    \/ Batch_Load
    \/ Batch_Emit
    \/ Batch_Return

EmitterSpec == EmitterInit /\ [][EmitterNext]_vars

\* ------------------------------------------------------------------------
\* MarkerLocator on one frame: the runs start right after the video was
\* opened, on videos of one frame with none, one or two contours
\* ------------------------------------------------------------------------

MaxArea == 3
MaxMoment == 7

\* a degenerate contour has no area and no moments
LocatorContours ==
    {Contour(0, 0, 0)} \cup
    {Contour(a, m, 2 * m + 1) : a \in 1..MaxArea, m \in 0..MaxMoment}

LocatorFrames ==
    {<<>>} \cup {<<c>> : c \in LocatorContours}
           \cup {<<c, d>> : c \in LocatorContours, d \in LocatorContours}

LocatorInit ==
    /\ entry \in {"process_video_to_scenes", "detect_green_dot"}
    /\ pc = "scan" /\ err = ""
    /\ source = "ok"
    /\ \E frame \in LocatorFrames : video = <<frame>>
    /\ total_frames = Len(video)
    /\ num_samples = 1
    /\ generate_images = FALSE
    /\ output_json = (entry = "detect_green_dot")
    /\ fs = InitialFiles(TemplateFirst, FALSE)
    /\ IF entry = "process_video_to_scenes"
       THEN LET L == JsonLoads(EmptyHeap, TemplateFirst)
            IN /\ heap = L.heap /\ template = L.root
               /\ light_source = FindPointSource(L.heap, L.root)
               /\ template_y = L.heap.dicts[light_source].y
       ELSE heap = EmptyHeap /\ template = 0 /\ light_source = 0 /\ template_y = PyInt(0)
    /\ y_offset = PyInt(0)
    /\ cap = "open"
    /\ frame_count = 0
    /\ valid_frames = <<>>
    /\ coordinates = <<>> /\ i = 0
    /\ result = EmptyResult /\ artifacts = <<>>
    /\ NoBuilder

LocatorNext == DGV_Scan \/ DGD_Scan

LocatorSpec == LocatorInit /\ [][LocatorNext]_vars

\* ------------------------------------------------------------------------
\* Scenes built in code (ray_optics_controller.py) and the two trajectory
\* generators
\* ------------------------------------------------------------------------

MaxObjects == 3
MaxTrajectory == 2

\* a Point object, and Point.to_dict
Point(x, y) == [class |-> "Point", x |-> x, y |-> y]
PointDict(p) == [x |-> p.x, y |-> p.y]

\* a float literal given in tenths
Tenths(t) == [tenths |-> t]

\* str() of an int, and of a float of one decimal (0.5, 0.8, 0.9)
StrInt(n) == [int |-> Digits(n), frac |-> <<>>]
StrTenths(d) == [int |-> Digits(d.tenths \div 10), frac |-> <<d.tenths % 10>>]

\* the constructors: each object keeps what it was given
NewPointSource(position, wavelength, brightness) ==
    [class |-> "PointSource", position |-> position,
     wavelength |-> wavelength, brightness |-> brightness]
NewParallelLight(position, direction, wavelength, brightness, width) ==
    [class |-> "ParallelLight", position |-> position, direction |-> direction,
     wavelength |-> wavelength, brightness |-> brightness, width |-> width]
NewFlatMirror(p1, p2) == [class |-> "FlatMirror", position |-> p1, p2 |-> p2]
NewBlocker(p1, p2) == [class |-> "Blocker", position |-> p1, p2 |-> p2]

\* to_dict of each class
to_dict(obj) ==
    CASE obj.class = "PointSource" ->
            [type |-> "PointSource", x |-> obj.position.x, y |-> obj.position.y,
             wavelength |-> StrInt(obj.wavelength),
             brightness |-> StrTenths(obj.brightness)]
      [] obj.class = "ParallelLight" ->
            [type |-> "Beam", p1 |-> PointDict(obj.position),
             p2 |-> PointDict(Point(obj.position.x, obj.position.y + obj.width)),
             wavelength |-> StrInt(obj.wavelength),
             brightness |-> StrTenths(obj.brightness)]
      [] obj.class = "FlatMirror" ->
            [type |-> "Mirror", p1 |-> PointDict(obj.position), p2 |-> PointDict(obj.p2)]
      [] obj.class = "Blocker" ->
            [type |-> "Blocker", p1 |-> PointDict(obj.position), p2 |-> PointDict(obj.p2)]

\* the objects the examples place: a mirror, a screen and a light
SceneObjects ==
    {NewFlatMirror(Point(500, 200), Point(600, 300)),
     NewBlocker(Point(900, 100), Point(900, 500)),
     NewPointSource(Point(100, 300), 550, Tenths(5))}

\* a JSON object as written: its members in insertion order
Member(key, value) == [key |-> key, value |-> value]

\* json.load of such a text: a dict, the last member of a key winning
JsonLoad(text) ==
    [k \in {text[n].key : n \in 1..Len(text)} |->
        text[SetMax({n \in 1..Len(text) : text[n].key = k})].value]

\* dict.get
Get(d, key, default) == IF key \in DOMAIN d THEN d[key] ELSE default

\* Variant: the object list is written without its last entry.
to_json_DropLast(sc) ==
    <<Member("version", 5),
      Member("objs", [n \in 1..(Len(sc.objects) - 1) |-> to_dict(sc.objects[n])]),
      Member("width", sc.width),
      Member("height", sc.height),
      Member("rayModeDensity", Tenths(1)),
      Member("origin", [x |-> 0, y |-> 0]),
      Member("scale", 1),
      Member("simulateColors", TRUE)>>

\* RayOpticsScene.to_json
to_json(sc) ==
    <<Member("version", 5),
      Member("objs", [n \in 1..Len(sc.objects) |-> to_dict(sc.objects[n])]),
      Member("width", sc.width),
      Member("height", sc.height),
      Member("rayModeDensity", Tenths(1)),
      Member("origin", [x |-> 0, y |-> 0]),
      Member("scale", 1),
      Member("simulateColors", TRUE)>>

\* validate_json: any exception, a missing field or another version is False
validate_json(files, path) ==
    IF path \notin DOMAIN files
    THEN FALSE
    ELSE LET data == JsonLoad(files[path])
             required_fields == {"version", "objs", "width", "height", "origin", "scale"}
         IN /\ required_fields \subseteq DOMAIN data
            /\ data.version = 5

ScenePath == JsonPath([prefix |-> "test_simple", digits |-> <<>>])

SceneInit ==
    /\ entry = "RayOpticsScene"
    /\ pc = "build" /\ err = ""
    /\ source = "ok" /\ video = <<>> /\ total_frames = 0
    /\ num_samples = 1 /\ generate_images = FALSE /\ output_json = FALSE
    /\ fs = EmptyFiles
    /\ heap = EmptyHeap /\ template = 0 /\ light_source = 0
    /\ template_y = PyInt(0) /\ y_offset = PyInt(0)
    /\ cap = "none" /\ frame_count = 0 /\ valid_frames = <<>>
    /\ coordinates = <<>> /\ i = 0
    /\ result = EmptyResult /\ artifacts = <<>>
    /\ \E size \in {<<800, 600>>, <<1000, 600>>} : scene = NewScene(size[1], size[2])
    /\ added = <<>> /\ passed = ""
    /\ base_scene = NoDict /\ trajectory = <<>> /\ light_config = ""
    /\ json_files = <<>>

pipeline == <<source, video, total_frames, num_samples, generate_images, output_json,
              heap, template, light_source, template_y, artifacts,
              cap, frame_count, valid_frames, coordinates, y_offset, result>>

\* scene.add_object(obj)
add_object ==
    /\ entry = "RayOpticsScene"
    /\ pc \in {"build", "saved"}
    /\ Len(scene.objects) < MaxObjects
    /\ \E obj \in SceneObjects :
          /\ scene' = [scene EXCEPT !.objects = Append(@, obj)]
          /\ added' = Append(added, obj)
    /\ pc' = "build"
    /\ UNCHANGED <<entry, err, pipeline, fs, i, passed, base_scene, trajectory,
                   light_config, json_files>>

\* scene.add_objects(objects), with a list of none, one or two objects
add_objects ==
    /\ entry = "RayOpticsScene"
    /\ pc \in {"build", "saved"}
    /\ \E objs \in {<<>>} \cup {<<o>> : o \in SceneObjects}
                          \cup {<<o, p>> : o \in SceneObjects, p \in SceneObjects} :
          /\ Len(scene.objects) + Len(objs) <= MaxObjects
          /\ scene' = [scene EXCEPT !.objects = @ \o objs]
          /\ added' = added \o objs
    /\ pc' = "build"
    /\ UNCHANGED <<entry, err, pipeline, fs, i, passed, base_scene, trajectory,
                   light_config, json_files>>

\* scene.save(test_file) followed by validate_json(test_file)
save ==
    /\ entry = "RayOpticsScene"
    /\ pc = "build"
    /\ fs' = WriteFile(fs, ScenePath, to_json(scene))
    /\ passed' = IF validate_json(fs', ScenePath) THEN "True" ELSE "False"
    /\ pc' = "saved"
    /\ UNCHANGED <<entry, err, pipeline, i, scene, added, base_scene, trajectory,
                   light_config, json_files>>

\* {i:03d}
Format03d(n) ==
    IF n < 10 THEN <<0, 0, n>> ELSE IF n < 100 THEN <<0>> \o Digits(n) ELSE Digits(n)

FramePath(n) == JsonPath([prefix |-> "trajectory", digits |-> Format03d(n)])

\* the positions the demo walks through, as Point objects
TrajectoryPoints == {Point(100, 250), Point(130, 250)}
SeqsUpTo(S, n) == UNION {[1..m -> S] : m \in 0..n}

\* light_type and light_params of generate_light_trajectory: the default
\* parameters, the demo's, a beam with its direction, a beam without, and a
\* class that is no light source
LightParams ==
    {[light_type |-> "PointSource",
      light_params |-> [wavelength |-> 650, brightness |-> Tenths(8)]],
     [light_type |-> "PointSource",
      light_params |-> [wavelength |-> 650, brightness |-> Tenths(9)]],
     [light_type |-> "ParallelLight",
      light_params |-> [direction |-> Point(1, 0), wavelength |-> 650,
                        brightness |-> Tenths(8)]],
     [light_type |-> "ParallelLight",
      light_params |-> [wavelength |-> 650, brightness |-> Tenths(8)]],
     [light_type |-> "FlatMirror",
      light_params |-> [wavelength |-> 650, brightness |-> Tenths(8)]]}

generate_light_trajectory ==
    /\ entry = "RayOpticsScene"
    /\ pc \in {"build", "saved"}
    /\ entry' = "generate_light_trajectory"
    /\ trajectory' \in SeqsUpTo(TrajectoryPoints, MaxTrajectory)
    /\ light_config' \in LightParams
    /\ json_files' = <<>>
    /\ i' = 0
    /\ pc' = "frames"
    /\ UNCHANGED <<err, pipeline, fs, scene, added, passed, base_scene>>

\* one turn of the loop of generate_light_trajectory: a new scene, the base
\* scene's objects, the light, the file
GLT_Frame ==
    /\ entry = "generate_light_trajectory"
    /\ pc = "frames"
    /\ i < Len(trajectory)
    /\ LET position == trajectory[i + 1]
           params == light_config.light_params
           copied == [NewScene(scene.width, scene.height) EXCEPT !.objects = scene.objects]
       IN CASE light_config.light_type = "PointSource" ->
                  LET light == NewPointSource(position, params.wavelength, params.brightness)
                      frame == [copied EXCEPT !.objects = Append(@, light)]
                  IN /\ fs' = WriteFile(fs, FramePath(i + 1), to_json(frame))
                     /\ json_files' = Append(json_files, FramePath(i + 1))
                     /\ i' = i + 1
                     /\ UNCHANGED <<pc, err>>
            [] light_config.light_type = "ParallelLight" /\ "direction" \in DOMAIN params ->
                  LET light == NewParallelLight(position, params.direction,
                                                params.wavelength, params.brightness, 50)
                      frame == [copied EXCEPT !.objects = Append(@, light)]
                  IN /\ fs' = WriteFile(fs, FramePath(i + 1), to_json(frame))
                     /\ json_files' = Append(json_files, FramePath(i + 1))
                     /\ i' = i + 1
                     /\ UNCHANGED <<pc, err>>
            [] light_config.light_type = "ParallelLight" /\ "direction" \notin DOMAIN params ->
                  /\ Raise("TypeError")
                  /\ UNCHANGED <<fs, json_files, i>>
            [] OTHER ->
                  /\ Raise("ValueError: light type")
                  /\ UNCHANGED <<fs, json_files, i>>
    /\ UNCHANGED <<entry, pipeline, scene, added, passed, base_scene, trajectory, light_config>>

GLT_Return ==
    /\ entry = "generate_light_trajectory"
    /\ pc = "frames"
    /\ i = Len(trajectory)
    /\ pc' = "done"
    /\ UNCHANGED <<entry, err, pipeline, fs, i, builder>>

\* the scene files generate_trajectory.py is given: the one the builder
\* saved, one holding only its objects, and one holding no object list
BaseScenes(data) ==
    {data, [k \in {"objs"} |-> data.objs], [k \in {"version"} |-> data.version]}

\* the light_config dicts: a point source, the defaults, a beam, and a type
\* that is not supported
LightConfigs ==
    {[type |-> "PointSource", wavelength |-> 650, brightness |-> Tenths(9)],
     NoDict,
     [type |-> "Beam", width |-> 80],
     [type |-> "Laser"]}

generate_trajectory_scenes ==
    /\ entry = "RayOpticsScene"
    /\ pc = "saved"
    /\ entry' = "generate_trajectory_scenes"
    /\ base_scene' \in BaseScenes(JsonLoad(fs[ScenePath]))
    /\ trajectory' \in SeqsUpTo({PointDict(p) : p \in TrajectoryPoints}, MaxTrajectory)
    /\ light_config' \in LightConfigs
    /\ json_files' = <<>>
    /\ i' = 0
    /\ pc' = "frames"
    /\ UNCHANGED <<err, pipeline, fs, scene, added, passed>>

\* create_light_source, a record with the field raised standing for the ValueError
create_light_source(position, config) ==
    LET light_type == Get(config, "type", "PointSource")
    IN CASE light_type = "PointSource" ->
               [type |-> "PointSource", x |-> position.x, y |-> position.y,
                wavelength |-> StrInt(Get(config, "wavelength", 550)),
                brightness |-> StrTenths(Get(config, "brightness", Tenths(8)))]
         [] light_type = "Beam" ->
               [type |-> "Beam", p1 |-> position,
                p2 |-> [x |-> position.x, y |-> position.y + Get(config, "width", 50)],
                wavelength |-> StrInt(Get(config, "wavelength", 550)),
                brightness |-> StrTenths(Get(config, "brightness", Tenths(8)))]
         [] OTHER -> [raised |-> "ValueError"]

\* the dict generate_trajectory_scenes writes for one position
FrameScene(base, objs) ==
    <<Member("version", Get(base, "version", 5)),
      Member("objs", objs),
      Member("width", Get(base, "width", 1200)),
      Member("height", Get(base, "height", 600)),
      Member("rayModeDensity", Get(base, "rayModeDensity", Tenths(1))),
      Member("origin", Get(base, "origin", [x |-> 0, y |-> 0])),
      Member("scale", Get(base, "scale", 1)),
      Member("simulateColors", Get(base, "simulateColors", TRUE))>>

\* Variant: the light is appended to the base scene's own list.
GTS_Frame_NoCopy ==
    /\ entry = "generate_trajectory_scenes"
    /\ pc = "frames"
    /\ i < Len(trajectory)
    /\ LET light == create_light_source(trajectory[i + 1], light_config)
           objs == Append(Get(base_scene, "objs", <<>>), light)
       IN IF "raised" \in DOMAIN light
          THEN /\ Raise("ValueError: light type")
               /\ UNCHANGED <<fs, json_files, i, base_scene>>
          ELSE /\ fs' = WriteFile(fs, FramePath(i + 1), FrameScene(base_scene, objs))
               /\ base_scene' = IF "objs" \in DOMAIN base_scene
                                THEN [base_scene EXCEPT !.objs = objs]
                                ELSE base_scene
               /\ json_files' = Append(json_files, FramePath(i + 1))
               /\ i' = i + 1
               /\ UNCHANGED <<pc, err>>
    /\ UNCHANGED <<entry, pipeline, scene, added, passed, trajectory, light_config>>

\* one turn of the loop of generate_trajectory_scenes: the light is appended
\* to a copy of the base scene's list
GTS_Frame ==
    /\ entry = "generate_trajectory_scenes"
    /\ pc = "frames"
    /\ i < Len(trajectory)
    /\ LET light == create_light_source(trajectory[i + 1], light_config)
           objs == Append(Get(base_scene, "objs", <<>>), light)
       IN IF "raised" \in DOMAIN light
          THEN /\ Raise("ValueError: light type")
               /\ UNCHANGED <<fs, json_files, i>>
          ELSE /\ fs' = WriteFile(fs, FramePath(i + 1), FrameScene(base_scene, objs))
               /\ json_files' = Append(json_files, FramePath(i + 1))
               /\ i' = i + 1
               /\ UNCHANGED <<pc, err>>
    /\ UNCHANGED <<entry, pipeline, scene, added, passed, base_scene, trajectory, light_config>>

GTS_Return ==
    /\ entry = "generate_trajectory_scenes"
    /\ pc = "frames"
    /\ i = Len(trajectory)
    /\ pc' = "done"
    /\ UNCHANGED <<entry, err, pipeline, fs, i, builder>>

SceneNext ==
    \/ add_object
    \/ add_objects
    \/ save
    \/ generate_light_trajectory
    \/ GLT_Frame
    \/ GLT_Return
    \/ generate_trajectory_scenes
    \/ GTS_Frame
    \/ GTS_Return

SceneSpec == SceneInit /\ [][SceneNext]_vars

\* ------------------------------------------------------------------------
\* Properties
\* ------------------------------------------------------------------------

Min(a, b) == IF a < b THEN a ELSE b

\* the sampling step has run and returned its list
Sampled ==
    \/ entry = "process_video_to_scenes" /\ pc = "map"
    \/ entry = "detect_green_dot" /\ pc = "done" /\ cap = "released"

\* the while loop has left the video exhausted
ScanEnded == cap = "released" \/ (cap = "open" /\ pc = "sample")

\* the artifact written for the j-th sampled point
ArtifactDoc(j) == fs[JsonPath(FileName(OutputPrefix, j))]

\* the designated light source of a document: its first PointSource for
\* process_video_to_scenes, objs[0] for batch_generate_json_files
LightIndex(doc) ==
    IF entry = "batch_generate_json_files" THEN 1
    ELSE SetMin({k \in 1..Len(doc.objs) :
                   "type" \in DOMAIN doc.objs[k] /\ doc.objs[k].type = "PointSource"})
LightOf(doc) == doc.objs[LightIndex(doc)]

\* C1: the sampling step returns exactly min(K, N) entries, N the number of
\* detections of the trajectory; exactly K whenever N > K.
C1_SampleCount ==
    Sampled => Len(coordinates) = Min(num_samples, Len(valid_frames))

C1_Witness ==
    /\ Sampled
    /\ num_samples >= 2
    /\ Len(valid_frames) > num_samples
    /\ Len(coordinates) = num_samples

\* C2: when N > K the i-th sample (i = 0..K-1) is the detection at position
\* floor(i * N / K) of the trajectory.
C2_StrideIndex ==
    (Sampled /\ Len(valid_frames) > num_samples) =>
        \A j \in 1..num_samples :
            coordinates[j] =
                CoordOf(valid_frames[((j - 1) * Len(valid_frames)) \div num_samples + 1])

\* C3: when N <= K the sample set is the trajectory itself: the same
\* detections (frame, x, y) in the same order, nothing dropped or added.
C3_Passthrough ==
    (Sampled /\ Len(valid_frames) <= num_samples) =>
        /\ Len(coordinates) = Len(valid_frames)
        /\ \A j \in 1..Len(valid_frames) :
              /\ coordinates[j].frame = valid_frames[j][1]
              /\ coordinates[j].x = valid_frames[j][2][1]
              /\ coordinates[j].y = valid_frames[j][2][2]

C3_Witness ==
    /\ Sampled
    /\ Len(valid_frames) = 7
    /\ num_samples = 20
    /\ Len(coordinates) = 7

\* C4: the frame indices of the sample set are strictly increasing: nothing
\* is reordered and no detection is selected twice.
C4_StrictlyIncreasing ==
    Sampled => \A j \in 1..(Len(coordinates) - 1) :
                  coordinates[j].frame < coordinates[j + 1].frame

C4_Witness ==
    /\ Sampled
    /\ num_samples >= 2
    /\ Len(valid_frames) > num_samples
    /\ Len(video) > Len(valid_frames)
    /\ Len(coordinates) = num_samples

\* C5: the light source of the first artifact has the y of the template's
\* reference object, exactly.
C5_FirstAnchored ==
    Len(artifacts) >= 1 =>
        NumEq(LightOf(ArtifactDoc(1)).y, LightOf(fs[TemplatePath]).y)

\* C6: one offset, the reference y minus the y of the first sample, serves
\* every point of a run: the j-th artifact's light source is at the x of
\* the j-th sample and at its y plus that offset, in sample order; with the
\* reference (400, 625) and the first detection (398, 556) the offset is 69
\* and the detection (420, 560) is mapped to (420, 629).
C6_UniformOffset ==
    /\ \A j \in 1..Len(artifacts) :
          /\ LightOf(ArtifactDoc(j)).x = PyInt(coordinates[j].x)
          /\ LightOf(ArtifactDoc(j)).y =
                NumAddInt(coordinates[j].y,
                          NumSubInt(LightOf(fs[TemplatePath]).y, coordinates[1].y))
    /\ ( /\ Len(artifacts) >= 1
         /\ LightOf(fs[TemplatePath]).y = PyInt(625)
         /\ coordinates[1].y = 556 )
       => /\ y_offset = PyInt(69)
          /\ \A j \in 1..Len(artifacts) :
                (coordinates[j].x = 420 /\ coordinates[j].y = 560)
                => ( /\ LightOf(ArtifactDoc(j)).x = PyInt(420)
                     /\ LightOf(ArtifactDoc(j)).y = PyInt(629) )

C6_Witness ==
    /\ entry = "process_video_to_scenes"
    /\ Len(artifacts) = 2
    /\ fs[TemplatePath] = TemplateFirst
    /\ coordinates[1].x = 398 /\ coordinates[1].y = 556
    /\ coordinates[2].x = 420 /\ coordinates[2].y = 560
    /\ LightOf(ArtifactDoc(1)).y = PyInt(625)
    /\ LightOf(ArtifactDoc(2)).y = PyInt(629)

\* C7: at every point of a scan the trajectory has strictly ascending frame
\* indices, and each index is the 1-based ordinal of its frame in read
\* order: it lies between 1 and the number of frames read, and the entry
\* holds what MarkerLocator found in that frame.
C7_TrajectoryAscending ==
    \A j \in 1..Len(valid_frames) :
        /\ valid_frames[j][1] \in 1..frame_count
        /\ j > 1 => valid_frames[j - 1][1] < valid_frames[j][1]
        /\ valid_frames[j][2] = detect_green_in_frame(video[valid_frames[j][1]])

C7_Witness ==
    /\ pc = "scan"
    /\ frame_count = 3
    /\ Len(valid_frames) = 2
    /\ valid_frames[1][1] = 1
    /\ valid_frames[2][1] = 3

\* C8: the scan reads every frame and never stops on the number of
\* detections it has: when it ends, the trajectory holds a detection for
\* frame f exactly when MarkerLocator found the marker in frame f, for
\* every frame of the video, whatever K.
C8_ScanComplete ==
    ScanEnded =>
        /\ frame_count = Len(video)
        /\ \A f \in 1..Len(video) :
              (\E j \in 1..Len(valid_frames) : valid_frames[j][1] = f)
              <=> (detect_green_in_frame(video[f]) # NoPos)

C8_Witness ==
    /\ ScanEnded
    /\ num_samples = 1
    /\ Len(video) = 3
    /\ Len(valid_frames) = 3

ListOf(root) == IF "objs" \in DOMAIN heap.roots[root] THEN {heap.roots[root].objs} ELSE {}
DictsOf(root) == {ObjsOf(heap, root)[k] : k \in 1..Len(ObjsOf(heap, root))}
Documents == (IF template = 0 THEN {} ELSE {template}) \cup {artifacts[j] : j \in 1..Len(artifacts)}

\* C10: emitting never mutates the template and the artifacts share no
\* mutable structure: after any number of artifacts the template in memory
\* is still the document that was loaded, every artifact in memory is
\* still what was written for it, however many were patched after it, and
\* no list or dict belongs to two documents.
C10_Independent ==
    /\ template # 0 => JsonDumps(heap, template) = fs[TemplatePath]
    /\ \A j \in 1..Len(artifacts) : JsonDumps(heap, artifacts[j]) = ArtifactDoc(j)
    /\ Cardinality(Documents) = Len(artifacts) + (IF template = 0 THEN 0 ELSE 1)
    /\ \A r1, r2 \in Documents :
          r1 # r2 => /\ ListOf(r1) \cap ListOf(r2) = {}
                     /\ DictsOf(r1) \cap DictsOf(r2) = {}

C10_Witness ==
    /\ pc = "done"
    /\ Len(artifacts) = 2
    /\ LightOf(ArtifactDoc(1)) # LightOf(ArtifactDoc(2))
    /\ LightOf(JsonDumps(heap, template)).y = PyInt(625)
    /\ LightOf(ArtifactDoc(2)).y = PyInt(629)

\* the point the j-th sample is mapped to
MappedPoint(j) ==
    [x |-> PyInt(coordinates[j].x), y |-> NumAddInt(coordinates[j].y, y_offset)]

\* a template document with the object at position k moved to (x, y)
EmittedDoc(tpl, k, x, y) ==
    [tpl EXCEPT !.objs[k] =
        [f \in (DOMAIN tpl.objs[k]) \cup {"x", "y"} |->
            IF f = "x" THEN x ELSE IF f = "y" THEN y ELSE tpl.objs[k][f]]]

\* C11: the emitter is referentially transparent: the artifact of position
\* j is a function of the template and the mapped point, its identifier a
\* function of j, and two positions with the same mapped point get the
\* same artifact however many artifacts were emitted before each.
C11_Transparent ==
    \A j \in 1..Len(artifacts) :
        /\ ArtifactDoc(j) =
              EmittedDoc(fs[TemplatePath], LightIndex(fs[TemplatePath]),
                         MappedPoint(j).x, MappedPoint(j).y)
        /\ entry = "process_video_to_scenes" =>
              /\ j <= Len(result.json_files)
              /\ result.json_files[j] = JsonPath(FileName(OutputPrefix, j))
        /\ \A k \in 1..Len(artifacts) :
              MappedPoint(k) = MappedPoint(j) => ArtifactDoc(k) = ArtifactDoc(j)

C11_Witness ==
    /\ entry = "process_video_to_scenes"
    /\ Len(artifacts) = 2
    /\ coordinates[1].frame # coordinates[2].frame
    /\ MappedPoint(1) = MappedPoint(2)
    /\ ArtifactDoc(1) = ArtifactDoc(2)

RECURSIVE DecimalValue(_)
DecimalValue(d) ==
    IF d = <<>> THEN 0 ELSE 10 * DecimalValue(SubSeq(d, 1, Len(d) - 1)) + d[Len(d)]

\* nm is <prefix>_<n in decimal, zero-padded to at least two digits>
IsIdentifier(nm, n) ==
    /\ nm.prefix = OutputPrefix
    /\ Len(nm.digits) >= 2
    /\ \A k \in 1..Len(nm.digits) : nm.digits[k] \in 0..9
    /\ Len(nm.digits) > 2 => nm.digits[1] # 0
    /\ DecimalValue(nm.digits) = n

\* the JSON files of output/json other than the template and the summary
EmittedJson == {p \in DOMAIN fs : p.dir = "output/json"} \ {TemplatePath, SummaryPath}

\* C12: the artifact of the j-th sampled point is stored under the
\* identifier <prefix>_<j zero-padded to at least two digits>, and distinct
\* positions get distinct identifiers: every artifact emitted so far is
\* still in its own file, none overwritten by another.
C12_Identifiers ==
    /\ \A j \in 1..Len(artifacts) :
          /\ \E p \in EmittedJson :
                /\ IsIdentifier(p.name, j)
                /\ fs[p] = JsonDumps(heap, artifacts[j])
          /\ entry = "process_video_to_scenes" =>
                /\ IsIdentifier(result.json_files[j].name, j)
                /\ \A k \in 1..Len(artifacts) :
                      k # j => result.json_files[k] # result.json_files[j]
    /\ Cardinality(EmittedJson) = Len(artifacts)

C12_Witness ==
    /\ Len(artifacts) >= 100
    /\ JsonPath([prefix |-> OutputPrefix, digits |-> <<0, 9>>]) \in EmittedJson
    /\ JsonPath([prefix |-> OutputPrefix, digits |-> <<1, 0>>]) \in EmittedJson
    /\ JsonPath([prefix |-> OutputPrefix, digits |-> <<1, 0, 0>>]) \in EmittedJson
    /\ fs[JsonPath([prefix |-> OutputPrefix, digits |-> <<1, 0, 0>>])] =
          JsonDumps(heap, artifacts[100])

\* the template document holds no PointSource
NoPointSource(doc) ==
    \/ "objs" \notin DOMAIN doc
    \/ \A k \in 1..Len(doc.objs) :
          ~("type" \in DOMAIN doc.objs[k] /\ doc.objs[k].type = "PointSource")

\* the files a run emits: everything but the template and the summary
EmittedFiles == (DOMAIN fs) \ {TemplatePath, SummaryPath}

\* C13: with a template that holds no PointSource, a run that maps
\* coordinates onto the template (process_video_to_scenes,
\* batch_generate_json_files) fails before anything is emitted: it never
\* reaches the emit loop, it ends with an error, and no artifact, HTML or
\* image exists.
C13_NoReferenceFound ==
    ( /\ entry \in {"process_video_to_scenes", "batch_generate_json_files"}
      /\ TemplatePath \in DOMAIN fs
      /\ NoPointSource(fs[TemplatePath]) )
    => /\ pc \in {"start", "error"}
       /\ artifacts = <<>>
       /\ EmittedFiles = {}

\* C14: when the video cannot be opened the scan does not return a normal
\* result: once the open has been tried the run is in an error, and
\* nothing is emitted, no artifact, HTML, image or summary record.
C14_SourceUnavailable ==
    ( /\ entry \in {"process_video_to_scenes", "detect_green_dot"}
      /\ source # "ok"
      /\ cap # "none" )
    => /\ pc = "error"
       /\ coordinates = <<>>
       /\ EmittedFiles = {}
       /\ SummaryPath \notin DOMAIN fs

\* the function that scans the video has ended with an exception of its own
ScannerRaised ==
    /\ pc = "error"
    /\ err \in {"ValueError: cannot open video", "ValueError: no green dot"}

\* C15: when the video opens and no frame holds the marker, the scan ends
\* normally with an empty trajectory and the number of frames read: the
\* scanner does not raise.
C15_EmptyTrajectory ==
    ( /\ entry \in {"process_video_to_scenes", "detect_green_dot"}
      /\ source = "ok"
      /\ ScanEnded
      /\ valid_frames = <<>> )
    => /\ frame_count = Len(video)
       /\ ~ScannerRaised

\* C16: a run of process_video_to_scenes on a video without a detection
\* ends with the no-detection error and has emitted nothing: no artifact,
\* an empty result, and no JSON, HTML or image file written (an image an
\* earlier run left is still that image).
C16_NoDetections ==
    ( /\ entry = "process_video_to_scenes"
      /\ source = "ok"
      /\ cap = "released"
      /\ valid_frames = <<>> )
    => /\ pc = "error"
       /\ err = "ValueError: no green dot"
       /\ artifacts = <<>>
       /\ result = EmptyResult
       /\ \A p \in EmittedFiles :
             /\ p = ImagePath(FileName(OutputPrefix, 1))
             /\ fs[p] = [shot_of |-> HtmlPath(FileName("earlier", 1))]

C16_Witness ==
    /\ entry = "process_video_to_scenes"
    /\ Len(video) = 3
    /\ frame_count = 3
    /\ valid_frames = <<>>
    /\ cap = "released"
    /\ pc = "error"
    /\ err = "ValueError: no green dot"

\* C17: a failure of the HTML generation or of the screenshot for one
\* point is local to that point: when the run of process_video_to_scenes
\* is over, every sampled point has been processed, whatever failed on
\* the way.
C17_FailureLocal ==
    ( /\ entry = "process_video_to_scenes"
      /\ pc \in {"done", "error"}
      /\ coordinates # <<>> )
    => Len(artifacts) = Len(coordinates)

\* the sampled points whose image file exists
PointsWithImage ==
    {j \in 1..Len(coordinates) : ImagePath(FileName(OutputPrefix, j)) \in DOMAIN fs}

\* every call of screenshot_with_selenium of the run returned True exactly
\* when it left the image of this run's HTML file
RendererTruthful ==
    \A j \in 1..Len(coordinates) :
        (\E k \in 1..Len(result.image_files) :
            result.image_files[k] = ImagePath(FileName(OutputPrefix, j)))
        <=> /\ j \in PointsWithImage
            /\ fs[ImagePath(FileName(OutputPrefix, j))] =
                  [shot_of |-> HtmlPath(FileName(OutputPrefix, j))]

\* C18: after a run with image generation the returned result is a
\* faithful tally: image_files has as many entries as there are sampled
\* points whose image exists after the run, the other points being the
\* rendering failures. (Stated for the runs in which the renderer itself
\* reports truthfully.)
C18_FaithfulTally ==
    ( /\ entry = "process_video_to_scenes"
      /\ generate_images
      /\ pc = "done"
      /\ RendererTruthful )
    => /\ Len(result.image_files) = Cardinality(PointsWithImage)
       /\ \A j \in 1..Len(coordinates) :
             (j \in PointsWithImage) <=>
                (\E k \in 1..Len(result.image_files) :
                    result.image_files[k] = ImagePath(FileName(OutputPrefix, j)))

\* the function that scans the video has been left, by return or by raise
ScanLeft ==
    /\ entry \in {"process_video_to_scenes", "detect_green_dot"}
    /\ cap # "none"
    /\ pc \in {"map", "emit", "done", "error"}

\* C19: the video source created at the start of a scan is released on
\* every path out of the scan: exhaustion, zero detections and failure to
\* open.
C19_Released == ScanLeft => cap = "released"

\* every screenshot the run asked for succeeded: each sampled point has an
\* image, and an image taken by this run is in image_files
ShotsSucceeded ==
    \A j \in 1..Len(coordinates) :
        /\ j \in PointsWithImage
        /\ fs[ImagePath(FileName(OutputPrefix, j))] =
              [shot_of |-> HtmlPath(FileName(OutputPrefix, j))]
           => \E k \in 1..Len(result.image_files) :
                 result.image_files[k] = ImagePath(FileName(OutputPrefix, j))

\* what the run returns when it starts with empty output directories and
\* every screenshot succeeds
CleanRunResult ==
    [json_files |-> [j \in 1..Len(coordinates) |-> JsonPath(FileName(OutputPrefix, j))],
     html_files |-> [j \in 1..Len(coordinates) |-> HtmlPath(FileName(OutputPrefix, j))],
     image_files |-> [j \in 1..Len(coordinates) |-> ImagePath(FileName(OutputPrefix, j))]]

\* C20: runs are independent of what earlier runs left in the output
\* directories: a finished run with image generation whose screenshots all
\* succeeded returns what the same run returns on empty directories, and
\* the image of every point is the image of this run's scene.
C20_RunsIndependent ==
    ( /\ entry = "process_video_to_scenes"
      /\ generate_images
      /\ pc = "done"
      /\ ShotsSucceeded )
    => /\ result = CleanRunResult
       /\ \A j \in 1..Len(coordinates) :
             fs[ImagePath(FileName(OutputPrefix, j))] =
                [shot_of |-> HtmlPath(FileName(OutputPrefix, j))]

C22_Locator ==
    LET LargestArea(frame) == SetMax({0} \cup {frame[k].area : k \in 1..Len(frame)})
    IN
    /\ pc # "error"
    /\ frame_count >= 1 =>
          /\ valid_frames = <<>> <=> LargestArea(video[1]) = 0
          /\ valid_frames # <<>> =>
                /\ valid_frames[1][1] = 1
                /\ \E k \in 1..Len(video[1]) :
                      /\ video[1][k].area = LargestArea(video[1])
                      /\ valid_frames[1][2] =
                            <<video[1][k].m10 \div video[1][k].m00,
                              video[1][k].m01 \div video[1][k].m00>>

C22_Witness ==
    /\ frame_count = 1
    /\ Len(video[1]) = 2
    /\ video[1][1].area = 1
    /\ video[1][2].area = 3
    /\ video[1][2].m10 = 7
    /\ valid_frames = <<<<1, <<2, 5>>>>>>

\* the dicts of a list of objects, in order
Dicts(objs) == [n \in 1..Len(objs) |-> to_dict(objs[n])]

\* C23: after any sequence of add_object / add_objects calls, the document
\* save writes passes validate_json: it holds version, objs, width, height,
\* origin and scale, its version is 5, and its objs are the dicts of the
\* added objects, one each, in the order they were added.
C23_BuiltSceneValid ==
    /\ passed # "False"
    /\ (entry = "RayOpticsScene" /\ pc = "saved") =>
          /\ passed = "True"
          /\ ScenePath \in DOMAIN fs
          /\ LET data == JsonLoad(fs[ScenePath])
             IN /\ {"version", "objs", "width", "height", "origin", "scale"} \subseteq DOMAIN data
                /\ data.version = 5
                /\ data.objs = Dicts(added)

C23_Witness ==
    /\ entry = "RayOpticsScene" /\ pc = "saved"
    /\ passed = "True"
    /\ Len(added) = 3
    /\ added[1].class = "PointSource"
    /\ added[3].class = "FlatMirror"
    /\ JsonLoad(fs[ScenePath]).objs[3].type = "Mirror"

\* the position in the trajectory (1-based) of the j-th sample
PositionOf(j) ==
    CHOOSE k \in 1..Len(valid_frames) : valid_frames[k][1] = coordinates[j].frame

\* the gaps between consecutive selected positions are floor(N/K) or ceil(N/K)
EvenGaps ==
    LET N == Len(valid_frames)
        K == num_samples
    IN \A j \in 1..(Len(coordinates) - 1) :
          PositionOf(j + 1) - PositionOf(j) \in {N \div K, (N + K - 1) \div K}

\* the samples are the first K detections of the trajectory
FirstKOnly == \A j \in 1..Len(coordinates) : PositionOf(j) = j

\* C24 as stated: when N > K the gaps are floor(N/K) or ceil(N/K) and the
\* samples are not just the first K detections.
C24_NotFirstK ==
    (Sampled /\ Len(valid_frames) > num_samples) => (EvenGaps /\ ~FirstKOnly)

\* C24: when N > K the gap between any two consecutive selected positions
\* is floor(N/K) or ceil(N/K); the samples reach beyond the first K
\* detections exactly when K >= 2 and N >= K + 2, and are the first K
\* detections when K = 1 or N = K + 1.
C24_EvenCoverage ==
    (Sampled /\ Len(valid_frames) > num_samples) =>
        /\ EvenGaps
        /\ FirstKOnly <=> (num_samples = 1 \/ Len(valid_frames) = num_samples + 1)

C24_Witness ==
    /\ Sampled
    /\ Len(valid_frames) = 30
    /\ num_samples = 22
    /\ PositionOf(11) = 14
    /\ PositionOf(12) = 15
    /\ PositionOf(13) = 17
    /\ ~FirstKOnly

\* the position of the first object of a document tagged PointSource
FirstPointSource(doc) ==
    SetMin({k \in 1..Len(doc.objs) :
              "type" \in DOMAIN doc.objs[k] /\ doc.objs[k].type = "PointSource"})

\* C25: the object read as the reference point and the object patched in
\* each artifact are the same one, the first object of the template tagged
\* PointSource wherever it sits in the list; every other object, later
\* PointSources included, keeps its template coordinates in every artifact.
C25_SameObject ==
    (TemplatePath \in DOMAIN fs /\ ~NoPointSource(fs[TemplatePath])) =>
        LET T == fs[TemplatePath]
            p == FirstPointSource(T)
        IN /\ light_source # 0 =>
                 /\ light_source = ObjsOf(heap, template)[p]
                 /\ template_y = T.objs[p].y
           /\ \A j \in 1..Len(artifacts) :
                 /\ ArtifactDoc(j).objs[p].x = MappedPoint(j).x
                 /\ ArtifactDoc(j).objs[p].y = MappedPoint(j).y
                 /\ \A k \in 1..Len(T.objs) :
                       k # p => ArtifactDoc(j).objs[k] = T.objs[k]

\* C26: in process_video_to_scenes with K >= 1 the mapping stage is only
\* reached with a non-empty sample set taken from a non-empty trajectory,
\* so reading its first entry never fails.
C26_SampleSetNonEmpty ==
    entry = "process_video_to_scenes" =>
        /\ pc \in {"map", "emit", "done"} =>
              /\ valid_frames # <<>>
              /\ coordinates # <<>>
        /\ err # "IndexError"

C26_Witness ==
    /\ entry = "process_video_to_scenes"
    /\ pc = "emit"
    /\ Len(video) = 3
    /\ Len(valid_frames) = 1
    /\ num_samples = 2
    /\ Len(coordinates) = 1
    /\ i = 1

\* C27: for a non-empty trajectory and K >= 1 the first sample is
\* Trajectory[0], every sample is a detection of the trajectory, and when
\* N > K the last detection Trajectory[N-1] is not among the samples.
C27_FirstKeptLastSkipped ==
    (Sampled /\ valid_frames # <<>>) =>
        LET N == Len(valid_frames)
        IN /\ coordinates # <<>>
           /\ coordinates[1] = CoordOf(valid_frames[1])
           /\ \A j \in 1..Len(coordinates) :
                 \E k \in 1..N : coordinates[j] = CoordOf(valid_frames[k])
           /\ N > num_samples =>
                 \A j \in 1..Len(coordinates) :
                    coordinates[j].frame # valid_frames[N][1]

C27_Witness ==
    /\ Sampled
    /\ Len(valid_frames) = 3
    /\ num_samples = 2
    /\ PositionOf(1) = 1
    /\ PositionOf(2) = 2
    /\ Len(video) > 3

\* a list is the other one, or the other one with entries appended
IsPrefix(s, t) == Len(s) <= Len(t) /\ SubSeq(t, 1, Len(s)) = s

\* the lists are in sample order, ImageIndex(k) being the position of the
\* point whose image is listed k-th
ResultInOrder ==
    LET ImageIndex(k) ==
            CHOOSE j \in 1..Len(coordinates) :
                result.image_files[k] = ImagePath(FileName(OutputPrefix, j))
    IN
    /\ Len(result.image_files) <= Len(result.html_files)
    /\ Len(result.html_files) <= Len(result.json_files)
    /\ Len(result.json_files) <= Len(coordinates)
    /\ \A j \in 1..Len(result.json_files) :
          result.json_files[j] = JsonPath(FileName(OutputPrefix, j))
    /\ \A j \in 1..Len(result.html_files) :
          result.html_files[j] = HtmlPath(FileName(OutputPrefix, j))
    /\ \A k \in 1..Len(result.image_files) :
          /\ \E j \in 1..Len(result.html_files) :
                result.image_files[k] = ImagePath(FileName(OutputPrefix, j))
          /\ k > 1 => ImageIndex(k - 1) < ImageIndex(k)
    /\ pc = "done" =>
          /\ Len(result.json_files) = Len(coordinates)
          /\ Len(result.html_files) = Len(coordinates)

\* C28: throughout a run of process_video_to_scenes the result lists only
\* grow, in sample order, with |image_files| <= |html_files| <=
\* |json_files| <= |SampleSet|; when the run returns normally json_files
\* and html_files have one entry per sampled point.
C28_ResultLists ==
    /\ entry = "process_video_to_scenes" => ResultInOrder
    /\ [][/\ entry' = "process_video_to_scenes" => ResultInOrder'
          /\ entry = "process_video_to_scenes" =>
                /\ IsPrefix(result.json_files, result'.json_files)
                /\ IsPrefix(result.html_files, result'.html_files)
                /\ IsPrefix(result.image_files, result'.image_files)]_vars

C28_Witness ==
    /\ entry = "process_video_to_scenes"
    /\ pc = "done"
    /\ Len(coordinates) = 2
    /\ Len(result.json_files) = 2
    /\ Len(result.html_files) = 2
    /\ result.image_files = <<ImagePath(FileName(OutputPrefix, 2))>>

\* the first object of a template is its PointSource
FirstIsPointSource(doc) ==
    /\ "objs" \in DOMAIN doc
    /\ doc.objs # <<>>
    /\ "type" \in DOMAIN doc.objs[1]
    /\ doc.objs[1].type = "PointSource"

\* the artifact batch_generate_json_files writes for the j-th coordinate:
\* objs[0] moved by the offset of objs[0] to the first coordinate
BatchDoc(tpl, coords, j) ==
    EmittedDoc(tpl, 1, PyInt(coords[j].x),
               NumAddInt(coords[j].y, NumSubInt(tpl.objs[1].y, coords[1].y)))

\* the artifact process_video_to_scenes writes for it: the first
\* PointSource moved by the offset of that PointSource to the first coordinate
ProcessDoc(tpl, coords, j) ==
    EmittedDoc(tpl, FirstPointSource(tpl), PyInt(coords[j].x),
               NumAddInt(coords[j].y,
                         NumSubInt(tpl.objs[FirstPointSource(tpl)].y, coords[1].y)))

\* C29: for a video that opens and holds a detection, and K >= 1,
\* detect_green_dot and detect_green_dots_from_video return the same list
\* of {frame, x, y} entries; and for a template whose first object is the
\* PointSource, batch_generate_json_files and process_video_to_scenes
\* write the same JSON artifacts for that list. Every run is compared with
\* what either implementation computes for its video and template.
C29_ImplementationsAgree ==
    /\ (Sampled /\ valid_frames # <<>>) =>
          /\ coordinates = UniformSample(Detections(video), num_samples)
          /\ coordinates = UniformSampleDot(Detections(video), num_samples)
    /\ (TemplatePath \in DOMAIN fs /\ FirstIsPointSource(fs[TemplatePath])) =>
          \A j \in 1..Len(artifacts) :
              /\ ArtifactDoc(j) = BatchDoc(fs[TemplatePath], coordinates, j)
              /\ ArtifactDoc(j) = ProcessDoc(fs[TemplatePath], coordinates, j)

C29_Witness ==
    /\ entry = "batch_generate_json_files"
    /\ pc = "done"
    /\ fs[TemplatePath] = TemplateFloat
    /\ Len(Detections(video)) = 3
    /\ num_samples = 2
    /\ Len(artifacts) = 2
    /\ ArtifactDoc(2) = ProcessDoc(TemplateFloat, coordinates, 2)
    /\ ArtifactDoc(2) # ArtifactDoc(1)

\* the light source a trajectory generator places at a position
IsLightAt(d, position) ==
    \/ d.type = "PointSource" /\ d.x = position.x /\ d.y = position.y
    \/ d.type = "Beam" /\ d.p1.x = position.x /\ d.p1.y = position.y

\* C30: trajectory scene generation does not accumulate light sources: the
\* scene written for position n is the base scene's objects in order
\* followed by exactly one light source at trajectory[n], and the base
\* scene's object list is the same after any number of frames, in
\* generate_light_trajectory and in generate_trajectory_scenes.
C30_NoAccumulation ==
    entry \in {"generate_light_trajectory", "generate_trajectory_scenes"} =>
      LET BaseObjs == IF entry = "generate_light_trajectory"
                      THEN Dicts(added)
                      ELSE Get(base_scene, "objs", <<>>)
      IN
        /\ scene.objects = added
        /\ entry = "generate_trajectory_scenes" =>
              base_scene \in BaseScenes(JsonLoad(fs[ScenePath]))
        /\ Len(json_files) = i
        /\ \A n \in 1..i :
              LET objs == JsonLoad(fs[FramePath(n)]).objs
              IN /\ json_files[n] = FramePath(n)
                 /\ Len(objs) = Len(BaseObjs) + 1
                 /\ SubSeq(objs, 1, Len(BaseObjs)) = BaseObjs
                 /\ IsLightAt(objs[Len(objs)], trajectory[n])

C30_Witness ==
    /\ entry = "generate_trajectory_scenes"
    /\ pc = "done"
    /\ i = 2
    /\ trajectory[1] # trajectory[2]
    /\ "objs" \in DOMAIN base_scene
    /\ Len(base_scene.objs) = 2
    /\ base_scene.objs[1].type = "PointSource"
    /\ Len(JsonLoad(fs[FramePath(2)]).objs) = 3
    /\ JsonLoad(fs[FramePath(2)]).objs[3].type = "PointSource"

====
